---- MODULE Spec2Model ----
(***************************************************************************)
(* hash_test/parse_critical_values.py: parse() reads a whitespace          *)
(* delimited table of critical values, write_csv() emits it as CSV.        *)
(*                                                                         *)
(* Text is modelled as sequences of one-character strings.  A float is a   *)
(* normalised decimal  sign * m * 10^e  (m without trailing zeros), which  *)
(* is exact for literals of at most 15 significant digits: for those,      *)
(* float() followed by repr() yields the shortest decimal that denotes     *)
(* the same value.  The name f, which parse() reads but never binds, is    *)
(* taken to be the opened input file; the output sink of write_csv() is    *)
(* taken to open successfully.                                             *)
(***************************************************************************)
EXTENDS Integers, Sequences, FiniteSets, TLC

VARIABLES f, i, probs, table, out, j, pc

vars == <<f, i, probs, table, out, j, pc>>

(***************************************************************************)
(* Bounds of the checked input space.                                      *)
(***************************************************************************)
MaxLines == 5
MaxVals == 1
MaxTokLen == 4

(***************************************************************************)
(* Characters.                                                             *)
(***************************************************************************)
Whitespace == {" ", "\t", "\n"}

Digits == {"0", "1", "2", "3", "4", "5", "6", "7", "8", "9"}

DigitChars == <<"0", "1", "2", "3", "4", "5", "6", "7", "8", "9">>

DigitVal(c) == (CHOOSE n \in 1..10 : DigitChars[n] = c) - 1

AllDigits(s) == \A n \in 1..Len(s) : s[n] \in Digits

RECURSIVE DecNat(_)
DecNat(s) == IF s = <<>> THEN 0
             ELSE 10 * DecNat(SubSeq(s, 1, Len(s) - 1)) + DigitVal(s[Len(s)])

RECURSIVE NatStr(_)
NatStr(n) == IF n < 10 THEN <<DigitChars[n + 1]>>
             ELSE Append(NatStr(n \div 10), DigitChars[(n % 10) + 1])

RECURSIVE Zeros(_)
Zeros(n) == IF n <= 0 THEN <<>> ELSE <<"0">> \o Zeros(n - 1)

Abs(n) == IF n < 0 THEN -n ELSE n

\* index of the first occurrence of a character of cs in s, 0 when absent
FirstOf(s, cs) == IF \E n \in 1..Len(s) : s[n] \in cs
                  THEN CHOOSE n \in 1..Len(s) :
                         s[n] \in cs /\ \A k \in 1..(n - 1) : s[k] \notin cs
                  ELSE 0

(***************************************************************************)
(* str.strip(), str.strip('.') and str.split()                             *)
(***************************************************************************)
RECURSIVE LStrip(_, _)
LStrip(s, cs) == IF s # <<>> /\ s[1] \in cs THEN LStrip(Tail(s), cs) ELSE s

RECURSIVE RStrip(_, _)
RStrip(s, cs) == IF s # <<>> /\ s[Len(s)] \in cs
                 THEN RStrip(SubSeq(s, 1, Len(s) - 1), cs)
                 ELSE s

strip(s, cs) == RStrip(LStrip(s, cs), cs)

RECURSIVE split(_)
split(s) ==
  LET t == LStrip(s, Whitespace)
      n == FirstOf(t, Whitespace)
  IN IF t = <<>> THEN <<>>
     ELSE IF n = 0 THEN <<t>>
     ELSE <<SubSeq(t, 1, n - 1)>> \o split(SubSeq(t, n + 1, Len(t)))

(***************************************************************************)
(* int(): an optional sign and one or more digits.                         *)
(***************************************************************************)
ValueError == [ok |-> FALSE, sign |-> 1, m |-> 0, e |-> 0]

int(s) ==
  LET neg  == s # <<>> /\ s[1] = "-"
      body == IF s # <<>> /\ s[1] \in {"-", "+"} THEN Tail(s) ELSE s
  IN IF body # <<>> /\ AllDigits(body)
     THEN [ok |-> TRUE, sign |-> 1,
           m |-> (IF neg THEN -DecNat(body) ELSE DecNat(body)), e |-> 0]
     ELSE ValueError

(***************************************************************************)
(* float(): [sign] (digits [. [digits]] | . digits) [e [sign] digits]      *)
(* The value is kept as its significant digits m and the power of ten e.   *)
(***************************************************************************)
float(s) ==
  LET neg   == s # <<>> /\ s[1] = "-"
      body  == IF s # <<>> /\ s[1] \in {"-", "+"} THEN Tail(s) ELSE s
      ePos  == FirstOf(body, {"e", "E"})
      mant  == IF ePos = 0 THEN body ELSE SubSeq(body, 1, ePos - 1)
      expo  == IF ePos = 0 THEN <<>> ELSE SubSeq(body, ePos + 1, Len(body))
      eNeg  == expo # <<>> /\ expo[1] = "-"
      eDig  == IF expo # <<>> /\ expo[1] \in {"-", "+"} THEN Tail(expo) ELSE expo
      dot   == FirstOf(mant, {"."})
      ip    == IF dot = 0 THEN mant ELSE SubSeq(mant, 1, dot - 1)
      fp    == IF dot = 0 THEN <<>> ELSE SubSeq(mant, dot + 1, Len(mant))
      expOk == ePos = 0 \/ (eDig # <<>> /\ AllDigits(eDig))
      manOk == AllDigits(ip) /\ AllDigits(fp) /\ (ip \o fp) # <<>>
      ex    == IF ePos = 0 THEN 0
               ELSE IF eNeg THEN -DecNat(eDig) ELSE DecNat(eDig)
      lead  == LStrip(ip \o fp, {"0"})
      sig   == RStrip(lead, {"0"})
  IN IF expOk /\ manOk
     THEN [ok |-> TRUE, sign |-> (IF neg THEN -1 ELSE 1), m |-> DecNat(sig),
           e |-> (IF sig = <<>> THEN 0
                  ELSE ex - Len(fp) + (Len(lead) - Len(sig)))]
     ELSE ValueError

(***************************************************************************)
(* repr() of a float and str() of an int, as csv.writer stringifies them.  *)
(* With digits d1..dn and decimal point position decpt (the value is       *)
(* 0.d1..dn * 10^decpt), repr uses exponent notation when decpt < -3 or    *)
(* decpt > 16 and positional notation otherwise.                           *)
(***************************************************************************)
Pad2(s) == IF Len(s) < 2 THEN <<"0">> \o s ELSE s

\* the float as '%.3f' would write it, digits past the third place cut off
ReprThreePlaces(x) ==
  LET sh    == IF x.e < -3 THEN -3 - x.e ELSE 0
      ds    == NatStr(x.m \div (10 ^ sh))
      e3    == IF x.e < -3 THEN -3 ELSE x.e
      n     == Len(ds)
      decpt == n + e3
      sg    == IF x.sign < 0 THEN <<"-">> ELSE <<>>
  IN sg \o (IF decpt <= 0 THEN <<"0", ".">> \o Zeros(-decpt) \o ds
            ELSE IF decpt >= n THEN ds \o Zeros(decpt - n) \o <<".", "0">>
            ELSE SubSeq(ds, 1, decpt) \o <<".">> \o SubSeq(ds, decpt + 1, n))

repr(x) ==
  LET ds    == NatStr(x.m)
      n     == Len(ds)
      decpt == n + x.e
      sg    == IF x.sign < 0 THEN <<"-">> ELSE <<>>
      fixed == IF decpt <= 0 THEN <<"0", ".">> \o Zeros(-decpt) \o ds
               ELSE IF decpt >= n THEN ds \o Zeros(decpt - n) \o <<".", "0">>
               ELSE SubSeq(ds, 1, decpt) \o <<".">> \o SubSeq(ds, decpt + 1, n)
      expo  == <<ds[1]>> \o (IF n > 1 THEN <<".">> \o SubSeq(ds, 2, n) ELSE <<>>)
                 \o <<"e", IF decpt - 1 < 0 THEN "-" ELSE "+">>
                 \o Pad2(NatStr(Abs(decpt - 1)))
  IN IF x.m = 0 THEN sg \o <<"0", ".", "0">>
     ELSE IF decpt < -3 \/ decpt > 16 THEN sg \o expo
     ELSE sg \o fixed

str(n) == IF n < 0 THEN <<"-">> \o NatStr(-n) ELSE NatStr(n)

(***************************************************************************)
(* csv.writer(f).writerow(row) with the default dialect: the fields are    *)
(* joined with commas; a field holding a delimiter, a quote or a line      *)
(* break is quoted.  A written line is kept without its "\r\n".            *)
(***************************************************************************)
NeedsQuote(fld) == \E n \in 1..Len(fld) : fld[n] \in {",", "\"", "\n", "\r"}

RECURSIVE DoubleQuotes(_)
DoubleQuotes(fld) == IF fld = <<>> THEN <<>>
                     ELSE (IF fld[1] = "\"" THEN <<"\"", "\"">> ELSE <<fld[1]>>)
                            \o DoubleQuotes(Tail(fld))

Quoted(fld) == IF NeedsQuote(fld) THEN <<"\"">> \o DoubleQuotes(fld) \o <<"\"">>
               ELSE fld

RECURSIVE writerow(_)
writerow(row) == IF row = <<>> THEN <<>>
                 ELSE IF Len(row) = 1 THEN Quoted(row[1])
                 ELSE Quoted(row[1]) \o <<",">> \o writerow(Tail(row))

(***************************************************************************)
(* parse(): the body of the loop over enumerate(f.readlines()).            *)
(* table is a dict: a sequence of entries [v, cs] in insertion order with  *)
(* pairwise distinct keys.                                                 *)
(***************************************************************************)
floats(toks) == [n \in 1..Len(toks) |-> float(toks[n])]

AllOk(xs) == \A n \in 1..Len(xs) : xs[n].ok

\* the key as vals[0].replace('.', '') would give it: every period removed
RowKeyRemovesAll(vals) == int(SelectSeq(vals[1], LAMBDA c : c # "."))

\* int(vals[0].strip('.'))
RowKey(vals) == int(strip(vals[1], {"."}))

\* setitem as a list of pairs would do it: every assignment adds an entry
SetitemAppends(d, v, cs) == Append(d, [v |-> v, cs |-> cs])

\* setitem as setdefault would do it: an existing key keeps its first value
SetitemKeepsFirst(d, v, cs) ==
  IF \E n \in 1..Len(d) : d[n].v = v THEN d
  ELSE Append(d, [v |-> v, cs |-> cs])

\* setitem that deletes an existing key and inserts it anew, at the end
SetitemMovesToEnd(d, v, cs) ==
  Append(SelectSeq(d, LAMBDA en : en.v # v), [v |-> v, cs |-> cs])

\* table[v] = cs
setitem(d, v, cs) ==
  IF \E n \in 1..Len(d) : d[n].v = v
  THEN [n \in 1..Len(d) |-> IF d[n].v = v THEN [v |-> v, cs |-> cs] ELSE d[n]]
  ELSE Append(d, [v |-> v, cs |-> cs])

Raised == [ok |-> FALSE, probs |-> <<>>, table |-> <<>>]

\* one iteration on line number idx (from 0) holding raw, from locals st
loop_body(idx, raw, st) ==
  LET line == strip(raw, Whitespace)
      vals == split(line)
  IN IF line = <<>> THEN st
     ELSE IF idx = 0
     THEN IF AllOk(floats(Tail(vals)))
          THEN [st EXCEPT !.probs = floats(Tail(vals))]
          ELSE Raised
     ELSE IF RowKey(vals).ok /\ AllOk(floats(Tail(vals)))
          THEN [st EXCEPT !.table = setitem(st.table, RowKey(vals).m,
                                            floats(Tail(vals)))]
          ELSE Raised

RECURSIVE loop(_, _, _)
loop(lines, idx, st) ==
  IF ~st.ok \/ idx = Len(lines) THEN st
  ELSE loop(lines, idx + 1, loop_body(idx, lines[idx + 1], st))

\* the value parse() returns on a file holding lines; ok = FALSE when it raises
parse(lines) == loop(lines, 0, [ok |-> TRUE, probs |-> <<>>, table |-> <<>>])

(***************************************************************************)
(* write_csv(): the rows handed to writerow.                               *)
(***************************************************************************)
reprs(xs) == [n \in 1..Len(xs) |-> repr(xs[n])]

header_row(ps) == <<<<"v">>>> \o reprs(ps)

\* the row as wr.writerow(cs) would write it: the key left out
DataRowWithoutKey(entry) == reprs(entry.cs)

data_row(entry) == <<str(entry.v)>> \o reprs(entry.cs)

(***************************************************************************)
(* The input files of the checked space.                                   *)
(***************************************************************************)
RECURSIVE Joined(_)
Joined(toks) == IF toks = <<>> THEN <<>>
                ELSE IF Len(toks) = 1 THEN toks[1]
                ELSE toks[1] \o <<" ">> \o Joined(Tail(toks))

Line(toks) == Joined(toks) \o <<"\n">>

SeqsUpTo(S, lo, hi) == UNION {[1..k -> S] : k \in lo..hi}

DF == <<"d", "f">>

ONE == <<"1">>

\* files of up to MaxLines lines drawn from a small set of line shapes
ShapeLines == { <<"\n">>,
                Line(<<DF, <<".", "5">>>>),
                Line(<<ONE, <<".", "5">>>>),
                Line(<<<<"1", ".">>, <<"1">>>>),
                Line(<<<<"2">>, <<".", "5">>>>),
                Line(<<<<"2">>, <<"x">>>>) }

ShapeFiles == SeqsUpTo(ShapeLines, 0, MaxLines)

\* a header and one row with up to MaxVals values each, after an optional
\* whitespace-only line
RaggedVals == SeqsUpTo({<<".", "5">>, <<"1">>}, 0, MaxVals)

RaggedFiles ==
  { pre \o <<Line(<<h>> \o hv), <<" ">> \o Line(<<ONE>> \o rv)>> :
      pre \in {<<>>, <<<<" ", "\t", "\n">>>>},
      h \in {DF, <<"7">>}, hv \in RaggedVals, rv \in RaggedVals }

\* every token of up to MaxTokLen characters as a row key, as a header
\* probability and as a row value
TokChars == {"0", "1", ".", "e", "-"}

Tokens == SeqsUpTo(TokChars, 1, MaxTokLen)

TokenFiles ==
  { <<Line(<<DF>>), Line(<<t>>)>> : t \in Tokens }
  \cup { <<Line(<<DF, t>>)>> : t \in Tokens }
  \cup { <<Line(<<DF>>), Line(<<ONE, t>>)>> : t \in Tokens }

\* the table of the documented scenario
Scenario ==
  << <<"d", "f", " ", " ", ".", "9", "9", "5", " ", ".", "9", "9", " ",
       ".", "0", "5", "\n">>,
     <<"1", ".", " ", " ", "0", ".", "0", "0", "0", "0", "3", "9", "3", " ",
       "0", ".", "0", "0", "0", "1", "5", "7", " ", "3", ".", "8", "4", "1",
       "\n">>,
     <<"2", ".", " ", " ", "0", ".", "0", "1", "0", "0", " ",
       "0", ".", "0", "2", "0", "1", " ", "5", ".", "9", "9", "1", "\n">> >>

Files == ShapeFiles \cup RaggedFiles \cup TokenFiles \cup {Scenario}

(***************************************************************************)
(* The run of __main__: parse(), then write_csv(probs, table).             *)
(*   pc = "parse"  in the loop of parse(), i lines consumed                *)
(*   pc = "error"  parse() raised ValueError on line i; nothing catches it *)
(*   pc = "write"  parse() returned, write_csv() not yet writing           *)
(*   pc = "rows"   header row written, j table entries written             *)
(*   pc = "done"   write_csv() returned                                    *)
(***************************************************************************)
Init ==
  /\ f \in Files
  /\ i = 0
  /\ probs = <<>>
  /\ table = <<>>
  /\ out = <<>>
  /\ j = 0
  /\ pc = "parse"

Locals == [ok |-> TRUE, probs |-> probs, table |-> table]

Current == loop_body(i, f[i + 1], Locals)

InLoop == pc = "parse" /\ i < Len(f)

\* if not line: continue
Blank ==
  /\ InLoop
  /\ strip(f[i + 1], Whitespace) = <<>>
  /\ i' = i + 1
  /\ UNCHANGED <<f, probs, table, out, j, pc>>

\* if i == 0: probs = [float(s) for s in vals[1:]]
Header ==
  /\ InLoop
  /\ strip(f[i + 1], Whitespace) # <<>>
  /\ i = 0
  /\ Current.ok
  /\ probs' = Current.probs
  /\ i' = i + 1
  /\ UNCHANGED <<f, table, out, j, pc>>

\* else: v = int(...); cs = [float(c) ...]; table[v] = cs
Row ==
  /\ InLoop
  /\ strip(f[i + 1], Whitespace) # <<>>
  /\ i # 0
  /\ Current.ok
  /\ table' = Current.table
  /\ i' = i + 1
  /\ UNCHANGED <<f, probs, out, j, pc>>

\* the loop as it would run with the conversions under try/except/continue
RaiseSkipsRow ==
  /\ InLoop
  /\ ~Current.ok
  /\ i' = i + 1
  /\ UNCHANGED <<f, probs, table, out, j, pc>>

\* int() or float() raises ValueError, which leaves parse() and __main__
Raise ==
  /\ InLoop
  /\ ~Current.ok
  /\ pc' = "error"
  /\ UNCHANGED <<f, i, probs, table, out, j>>

\* return probs, table
Return ==
  /\ pc = "parse"
  /\ i = Len(f)
  /\ pc' = "write"
  /\ UNCHANGED <<f, i, probs, table, out, j>>

\* wr.writerow(['v', *probs])
WriteHeader ==
  /\ pc = "write"
  /\ out' = Append(out, writerow(header_row(probs)))
  /\ j' = 0
  /\ pc' = "rows"
  /\ UNCHANGED <<f, i, probs, table>>

\* for v, cs in table.items(): wr.writerow([v, *cs])
WriteRow ==
  /\ pc = "rows"
  /\ j < Len(table)
  /\ out' = Append(out, writerow(data_row(table[j + 1])))
  /\ j' = j + 1
  /\ UNCHANGED <<f, i, probs, table, pc>>

Close ==
  /\ pc = "rows"
  /\ j = Len(table)
  /\ pc' = "done"
  /\ UNCHANGED <<f, i, probs, table, out, j>>

Next ==
  \/ Blank
  \/ Header
  \/ Row
  \/ Raise
  \/ Return
  \/ WriteHeader
  \/ WriteRow
  \/ Close

Spec == Init /\ [][Next]_vars

(***************************************************************************)
(* Vocabulary of the properties, stated on the input file itself.          *)
(***************************************************************************)
\* csv.reader on one written line without quoted fields: split at the commas
RECURSIVE readrow(_)
readrow(ln) ==
  LET n == FirstOf(ln, {","})
  IN IF n = 0 THEN <<ln>>
     ELSE <<SubSeq(ln, 1, n - 1)>> \o readrow(SubSeq(ln, n + 1, Len(ln)))

IsBlank(raw) == \A n \in 1..Len(raw) : raw[n] \in Whitespace

NonBlankIdx == {n \in 1..Len(f) : ~IsBlank(f[n])}

Min(S) == CHOOSE n \in S : \A k \in S : n <= k

Max(S) == CHOOSE n \in S : \A k \in S : k <= n

\* the header line is the first non-blank line; every later non-blank line
\* is a data line
HeaderIdx == Min(NonBlankIdx)

DataIdx == IF NonBlankIdx = {} THEN {} ELSE NonBlankIdx \ {HeaderIdx}

\* the non-blank lines after physical line 0: those the loop takes the else
\* branch on
ElseIdx == {n \in NonBlankIdx : n # 1}

FirstTok(n) == split(f[n])[1]

ValueToks(n) == Tail(split(f[n]))

\* a token that is digits between optional leading and trailing periods
IsDottedInt(tok) ==
  \E a \in 1..Len(tok) : \E b \in a..Len(tok) :
    /\ \A k \in 1..Len(tok) : (k < a \/ k > b) => tok[k] = "."
    /\ \A k \in a..b : tok[k] \in Digits

DottedIntValue(tok) == DecNat(SelectSeq(tok, LAMBDA c : c \in Digits))

\* a header line, then data lines of a dotted integer and floats
WellFormed ==
  /\ NonBlankIdx # {}
  /\ AllOk(floats(ValueToks(HeaderIdx)))
  /\ \A n \in DataIdx : IsDottedInt(FirstTok(n)) /\ AllOk(floats(ValueToks(n)))

\* every data line has as many values as the header has probabilities
Rectangular ==
  \A n \in DataIdx : Len(ValueToks(n)) = Len(ValueToks(HeaderIdx))

StartsWithHeader == f # <<>> /\ ~IsBlank(f[1])

Returned == pc \in {"write", "rows", "done"}

DataRows == IF out = <<>> THEN <<>> ELSE Tail(out)

Keys(S) == {RowKey(split(f[n])).m : n \in S}

(***************************************************************************)
(* C1.  As stated: for every well-formed input the number of CSV data rows *)
(* equals the number of non-blank, non-header lines.  Stated here on the   *)
(* well-formed inputs whose first physical line is the header, where       *)
(* parse() does not raise; it fails when two data lines have the same key. *)
(***************************************************************************)
C1RowsEqualDataLines ==
  (pc \in {"done", "error"} /\ WellFormed /\ StartsWithHeader)
    => Len(DataRows) = Cardinality(DataIdx)

\* C1 as amended: when the run completes, the number of CSV data rows is the
\* number of distinct keys among the lines read as data lines (the non-blank
\* lines after physical line 0), not the number of those lines.
C1RowsEqualDistinctKeys ==
  pc = "done" => Len(DataRows) = Cardinality(Keys(ElseIdx))

C1Witness ==
  /\ pc = "done"
  /\ StartsWithHeader
  /\ Cardinality(DataIdx) = 3
  /\ Len(DataRows) = 2

(***************************************************************************)
(* C9.  Last write wins: once parse() has returned, every key of a data    *)
(* line has exactly one entry in table, holding the values of the last     *)
(* data line with that key; the keys of the written data rows are pairwise *)
(* distinct.                                                               *)
(***************************************************************************)
LastWith(k) == Max({n \in DataIdx : RowKey(split(f[n])).m = k})

C9LastWriteWins ==
  Returned =>
    /\ \A k \in Keys(DataIdx) :
         /\ Cardinality({n \in 1..Len(table) : table[n].v = k}) = 1
         /\ \A n \in 1..Len(table) :
              table[n].v = k => table[n].cs = floats(ValueToks(LastWith(k)))
    /\ \A a \in 1..Len(DataRows) : \A b \in 1..Len(DataRows) :
         a # b => readrow(DataRows[a])[1] # readrow(DataRows[b])[1]

C9Witness ==
  /\ pc = "done"
  /\ \E n \in DataIdx : \E m \in DataIdx :
       /\ n < m
       /\ RowKey(split(f[n])).m = RowKey(split(f[m])).m
       /\ floats(ValueToks(n)) # floats(ValueToks(m))
       /\ LastWith(RowKey(split(f[n])).m) = m

(***************************************************************************)
(* C10.  As stated: the entries of table, and so the CSV data rows, are in *)
(* the order of the data lines that supplied their values, also when a key *)
(* repeats.  Stated here on inputs whose first physical line is the        *)
(* header.                                                                 *)
(***************************************************************************)
EntryKey(n) == table[n].v

C10OrderOfSupplyingLines ==
  (Returned /\ StartsWithHeader) =>
    \A a \in 1..Len(table) : \A b \in 1..Len(table) :
      a < b => LastWith(EntryKey(a)) < LastWith(EntryKey(b))

\* C10 as amended: the entries of table are in the order in which their keys
\* first occur among the lines read as data lines, and the CSV data rows are
\* written in that order; a repeated key keeps the place of its first line.
FirstWith(k) == Min({n \in ElseIdx : RowKey(split(f[n])).m = k})

C10OrderOfFirstOccurrence ==
  /\ Returned =>
       \A a \in 1..Len(table) : \A b \in 1..Len(table) :
         a < b => FirstWith(EntryKey(a)) < FirstWith(EntryKey(b))
  /\ \A r \in 1..Len(DataRows) : readrow(DataRows[r])[1] = str(EntryKey(r))

C10Witness ==
  /\ pc = "done"
  /\ StartsWithHeader
  /\ \E a \in 1..Len(table) : \E b \in 1..Len(table) :
       a < b /\ LastWith(EntryKey(a)) > LastWith(EntryKey(b))

(***************************************************************************)
(* C2.  Blank-line robustness: a blank line inserted at any position,      *)
(* also before the header line, leaves the result of parse() unchanged.    *)
(* Stated on the run: for every blank line of the input, the outcome of    *)
(* the run equals parse() of the input without that line.                  *)
(***************************************************************************)
Without(lines, n) == SubSeq(lines, 1, n - 1) \o SubSeq(lines, n + 1, Len(lines))

Outcome == IF pc = "error" THEN Raised
           ELSE [ok |-> TRUE, probs |-> probs, table |-> table]

C2BlankLineRobust ==
  (Returned \/ pc = "error") =>
    \A n \in 1..Len(f) : IsBlank(f[n]) => Outcome = parse(Without(f, n))

(***************************************************************************)
(* C3.  For every well-formed input, whose data lines have as many values  *)
(* as the header has probabilities, every written CSV data row has         *)
(* 1 + len(probs) fields and every value list of table has len(probs)      *)
(* values.                                                                 *)
(***************************************************************************)
C3RowWidth ==
  (pc = "done" /\ WellFormed /\ Rectangular) =>
    /\ \A r \in 1..Len(DataRows) : Len(readrow(DataRows[r])) = 1 + Len(probs)
    /\ \A n \in 1..Len(table) : Len(table[n].cs) = Len(probs)

(***************************************************************************)
(* C8.  Header selection: once parse() has returned, probs holds the       *)
(* values of the first non-blank line, whatever its physical index, and    *)
(* that line has added no entry to table: every entry stems from a data    *)
(* line.                                                                   *)
(***************************************************************************)
C8HeaderIsFirstNonBlank ==
  (Returned /\ NonBlankIdx # {}) =>
    /\ probs = floats(ValueToks(HeaderIdx))
    /\ \A n \in 1..Len(table) : table[n].v \in Keys(DataIdx)

(***************************************************************************)
(* C4.  As stated: the row key of a data line is the integer left after    *)
(* removing every period of its first token, wherever the periods occur.   *)
(* For every line the loop has taken as a data line: if it was consumed,   *)
(* table has an entry under that integer; if the run raised on it, the     *)
(* token without its periods is no integer or a value is no float.         *)
(***************************************************************************)
NoDots(tok) == SelectSeq(tok, LAMBDA c : c # ".")

\* tok between its first and its last character other than a period
Core(tok) ==
  LET nd == {k \in 1..Len(tok) : tok[k] # "."}
  IN IF nd = {} THEN <<>> ELSE SubSeq(tok, Min(nd), Max(nd))

Consumed(n) == n <= i

RaisedOn(n) == pc = "error" /\ n = i + 1

HasEntry(k) == \E n \in 1..Len(table) : table[n].v = k

C4EveryPeriodRemoved ==
  \A n \in ElseIdx :
    /\ Consumed(n) => int(NoDots(FirstTok(n))).ok
                        /\ HasEntry(int(NoDots(FirstTok(n))).m)
    /\ RaisedOn(n) => ~int(NoDots(FirstTok(n))).ok
                        \/ ~AllOk(floats(ValueToks(n)))

\* C4 as amended: the row key is the integer left after removing the leading
\* and trailing periods of the first token; a token that is no integer then,
\* such as one with a period between its digits, makes parse() raise.
C4LeadingTrailingPeriodsRemoved ==
  \A n \in ElseIdx :
    /\ Consumed(n) => int(Core(FirstTok(n))).ok
                        /\ HasEntry(int(Core(FirstTok(n))).m)
    /\ RaisedOn(n) => ~int(Core(FirstTok(n))).ok
                        \/ ~AllOk(floats(ValueToks(n)))

C4Witness ==
  /\ pc = "done"
  /\ \E n \in ElseIdx :
       LET tok == FirstTok(n)
       IN /\ Len(tok) >= 3
          /\ tok[1] = "."
          /\ tok[Len(tok)] = "."
          /\ HasEntry(DottedIntValue(tok))

(***************************************************************************)
(* C5.  A data line with a value token that is no number is never          *)
(* consumed: the run stays in the loop before it or has raised, it never   *)
(* reaches write_csv(), nothing is written, and the loop cannot end        *)
(* normally: while no ValueError was raised it still has lines to read.    *)
(***************************************************************************)
BadValues(n) == ~AllOk(floats(ValueToks(n)))

C5CoercionFailure ==
  \A n \in DataIdx :
    BadValues(n) =>
      /\ ~Consumed(n)
      /\ pc \in {"parse", "error"}
      /\ out = <<>>
      /\ pc = "parse" => InLoop

C5Witness ==
  /\ pc = "error"
  /\ StartsWithHeader
  /\ table # <<>>
  /\ \E n \in DataIdx : BadValues(n) /\ RaisedOn(n) /\ RowKey(split(f[n])).ok

====
